---------------------------- MODULE Spec2Model ----------------------------
(***************************************************************************)
(* Player Isolation (game.cc): the Board with its border sentinels, the    *)
(* Mirror strategy, the DijkstraScorer flood fill, the Negamax search with *)
(* alpha-beta pruning and the play_match driver.                           *)
(*                                                                         *)
(* Four specifications share the variables:                                *)
(*   BoardSpec   a freshly constructed Board driven through play():        *)
(*               two placements, then legal ray moves;                     *)
(*   SearchSpec  a caller of the Board / Scorer / Negamax interfaces on a  *)
(*               board whose cells outside a small free region have been   *)
(*               filled by earlier play() calls;                           *)
(*   EndgameSpec the scorer and the search on late boards, with few Empty  *)
(*               cells and a deeper max_depth;                             *)
(*   MatchSpec   main's set-up followed by play_match on such a board.     *)
(***************************************************************************)
EXTENDS Integers, Sequences, FiniteSets, TLC

(***************************************************************************)
(* Program constants (game.cc:21-36).                                      *)
(***************************************************************************)
BORDER == 5
EMPTY == 0
P1 == 1
P2 == 2
LOSS_VALUE == -1000
INF == 1000000
SCORE_PER_CELL == 16
MOVES == <<1, -1, 7, -7, 6, -6, 8, -8>>
\* The depth play_match passes to getMove.
MATCH_DEPTH == 25

(***************************************************************************)
(* Bounds of the model.                                                    *)
(***************************************************************************)
\* Number of inner cells that are not yet filled when a search or a match
\* starts (the first FreeCells cells of InnerOrder).
FreeCells == 9
\* Largest max_depth a caller passes to getMove in SearchSpec.
MaxDepth == 4
\* Number of legal moves played after the two placements in BoardSpec.
MaxPlies == 1
\* Number of legal moves the caller plays in SearchSpec.
SearchPlies == 2
\* Number of Empty cells of the boards of EndgameSpec.
EndFree == 5
\* Largest max_depth a caller passes to getMove in EndgameSpec.
EndDepth == 5

(***************************************************************************)
(* Helper macros (game.cc:39-43).  C's / and % truncate towards zero.      *)
(***************************************************************************)
CDiv(a, b) == IF a >= 0 THEN a \div b ELSE -((-a) \div b)
CMod(a, b) == a - b * CDiv(a, b)

OPPONENT(p) == IF p = P1 THEN P2 ELSE P1
POS_TO_X(pos) == CDiv(pos - 8, 7)
POS_TO_Y(pos) == CMod(pos - 8, 7)
XY_TO_POS(x, y) == x * 7 + y + 8

Cells == 0..48
Inner == {i * 7 + j : i \in 1..5, j \in 1..5}

(***************************************************************************)
(* Board (game.cc:46-110).  A Board value is a record                      *)
(* [board : the 49 cells, p1, p2 : the stored positions].                  *)
(***************************************************************************)
\* Board::Board()
NewBoard ==
  [board |-> [c \in Cells |->
                IF c \div 7 \in {0, 6} \/ c % 7 \in {0, 6} THEN BORDER ELSE EMPTY],
   p1 |-> 0, p2 |-> 0]

\* Board::isLegal(x, y)
isLegal(B, x, y) == B.board[x * 7 + y + 8] = EMPTY

\* Mutant: the token is moved, its previous cell becomes Empty again.
play_vacating(B, x, y, pl) ==
  LET pos == x * 7 + y + 8
      old == IF pl = P1 THEN B.p1 ELSE B.p2
      b0 == IF old = 0 THEN B ELSE [B EXCEPT !.board[old] = EMPTY]
      b1 == [b0 EXCEPT !.board[pos] = pl]
  IN  IF pl = P1 THEN [b1 EXCEPT !.p1 = pos] ELSE [b1 EXCEPT !.p2 = pos]

\* Mutant: the index is taken without the offset of the border ring.
play_unshifted(B, x, y, pl) ==
  LET pos == x * 7 + y
      b1 == [B EXCEPT !.board[pos] = pl]
  IN  IF pl = P1 THEN [b1 EXCEPT !.p1 = pos] ELSE [b1 EXCEPT !.p2 = pos]

\* Board::play(x, y, player)
play(B, x, y, pl) ==
  LET pos == x * 7 + y + 8
      b1 == [B EXCEPT !.board[pos] = pl]
  IN  IF pl = P1 THEN [b1 EXCEPT !.p1 = pos] ELSE [b1 EXCEPT !.p2 = pos]

\* Mutant: one of the eight neighbours (i+1) is not looked at.
hasLost_seven(B, i) ==
  IF i = 0 THEN FALSE
  ELSE IF B.board[i-1] = 0 \/ B.board[i+7] = 0 \/ B.board[i-7] = 0
          \/ B.board[i+6] = 0 \/ B.board[i-6] = 0 \/ B.board[i+8] = 0 \/ B.board[i-8] = 0
       THEN FALSE
       ELSE TRUE

\* Board::hasLost(i)
hasLost(B, i) ==
  IF i = 0 THEN FALSE
  ELSE IF B.board[i+1] = 0 \/ B.board[i-1] = 0 \/ B.board[i+7] = 0 \/ B.board[i-7] = 0
          \/ B.board[i+6] = 0 \/ B.board[i-6] = 0 \/ B.board[i+8] = 0 \/ B.board[i-8] = 0
       THEN FALSE
       ELSE TRUE

\* History: the indices Board::hasLost(i) reads on board, the operands of
\* its || chain up to the first one that is true (game.cc:104-110).
hasLost_reads(B, i) ==
  IF i = 0 THEN {}
  ELSE {i + MOVES[k] : k \in {k \in 1..8 : \A j \in 1..(k-1) : B.board[i + MOVES[j]] # 0}}

\* The position of a player: (player == P1) ? board->p1 : board->p2
PosOf(B, pl) == IF pl = P1 THEN B.p1 ELSE B.p2

(***************************************************************************)
(* Mirror (game.cc:112-128).  getMove stores the Board pointer and reads   *)
(* one stored position; the result is the returned index and the Board as  *)
(* the call leaves it.                                                     *)
(***************************************************************************)
\* Mutant: the player's own position is reflected.
Mirror_getMove_own(B, player, max_depth) ==
  LET pp == IF player = P1 THEN B.p1 ELSE B.p2
      px == POS_TO_X(pp)
      py == POS_TO_Y(pp)
      x == 4 - px
      y == 4 - py
  IN  [move |-> XY_TO_POS(x, y), B |-> B]

\* Mirror::getMove(board, player, max_depth)
Mirror_getMove(B, player, max_depth) ==
  LET pp == IF player = P1 THEN B.p2 ELSE B.p1
      px == POS_TO_X(pp)
      py == POS_TO_Y(pp)
      x == 4 - px
      y == 4 - py
  IN  [move |-> XY_TO_POS(x, y), B |-> B]

(***************************************************************************)
(* DijkstraScorer (game.cc:135-181).  The local state of dijkstra is the   *)
(* record d = [q, steps, total_cells, total_steps], with three history     *)
(* fields: pushed and popped, the cells handed to q.push and taken by      *)
(* q.pop in order, and idx, the indices used on board->board and steps.    *)
(***************************************************************************)
RECURSIVE dijkstra_ray(_, _, _, _, _)
\* The inner while (true) loop for one direction, from cell p.
dijkstra_ray(B, d, p, move, step) ==
  LET np == p + move
      d0 == [d EXCEPT !.idx = @ \cup {np}]
  IN  IF B.board[np] # EMPTY THEN d0
      ELSE IF d.steps[np] # -1 THEN d0
      ELSE dijkstra_ray(B, [d0 EXCEPT !.steps[np] = step, !.q = Append(@, np),
                                      !.pushed = Append(@, np)],
                        np, move, step)

RECURSIVE dijkstra_dirs_four(_, _, _, _, _)
\* Mutant: only the first four directions (the straight ones) are walked.
dijkstra_dirs_four(B, d, pos, i, step) ==
  IF i > 4 THEN d
  ELSE dijkstra_dirs_four(B, dijkstra_ray(B, d, pos, MOVES[i], step), pos, i + 1, step)

RECURSIVE dijkstra_dirs(_, _, _, _, _)
\* for (int i = 0; i < 8; ++i), from direction i on (1-based).
dijkstra_dirs(B, d, pos, i, step) ==
  IF i > 8 THEN d
  ELSE dijkstra_dirs(B, dijkstra_ray(B, d, pos, MOVES[i], step), pos, i + 1, step)

RECURSIVE dijkstra_while(_, _)
\* while (!q.empty())
dijkstra_while(B, d) ==
  IF d.q = <<>> THEN d
  ELSE LET pos == Head(d.q)
           d1 == [d EXCEPT !.q = Tail(@),
                           !.total_steps = @ + d.steps[pos],
                           !.total_cells = @ + 1,
                           !.popped = Append(@, pos)]
       IN  dijkstra_while(B, dijkstra_dirs(B, d1, pos, 1, d.steps[pos] + 1))

\* The flood fill's final local state for a player.
dijkstra_run(B, pl) ==
  LET pos == PosOf(B, pl)
  IN  dijkstra_while(B, [q |-> <<pos>>,
                         steps |-> [c \in Cells |-> IF c = pos THEN 0 ELSE -1],
                         total_cells |-> 0,
                         total_steps |-> 0,
                         pushed |-> <<pos>>,
                         popped |-> <<>>,
                         idx |-> {pos}])

\* Mutant: a discovered cell counts 1, not SCORE_PER_CELL.
dijkstra_unweighted(B, pl) ==
  LET d == dijkstra_run(B, pl)
  IN  d.total_cells - d.total_steps

\* DijkstraScorer::dijkstra(board, player)
dijkstra(B, pl) ==
  LET d == dijkstra_run(B, pl)
  IN  d.total_cells * SCORE_PER_CELL - d.total_steps

\* Mutant: the opponent is taken to be P2 whoever the player is.
getScore_fixedOpponent(B, pl) == dijkstra(B, pl) - dijkstra(B, P2)

\* DijkstraScorer::getScore(board, player)
getScore(B, pl) == dijkstra(B, pl) - dijkstra(B, OPPONENT(pl))

(***************************************************************************)
(* Negamax (game.cc:183-280).  The state threaded through one getMove call *)
(* is the record s:                                                        *)
(*   B, max_depth, depth_count   the Board and the Negamax fields;         *)
(*   orig     the cells at the moment getMove was called        (history)  *)
(*   erased   cells non-Empty in orig seen Empty after a write  (history)  *)
(*   nodes    one record per node that ran the expansion loop   (history)  *)
(*   losses   number of LOSS_VALUE + depth returns              (history)  *)
(*   idx      the indices negamax and hasLost used on the cells (history)  *)
(*   leaves   one record per node that returned the score       (history)  *)
(*   stuck    one record per node that returned LOSS_VALUE + depth (history)*)
(***************************************************************************)
\* depth == max_depth (game.cc:242)
AtHorizon(depth, max_depth) == depth = max_depth

\* Mutant: only the border stops a ray, tokens are jumped over.
Blocked_byBorderOnly(B, pos) == B.board[pos] = BORDER

\* cell != EMPTY: the ray walk stops before this cell (game.cc:257-260)
Blocked(B, pos) == B.board[pos] # EMPTY

\* cell = player (game.cc:262)
occupy(B, pos, player) == [B EXCEPT !.board[pos] = player]

\* Mutant: the speculative move is not undone.
restore_skipped(B, pos) == B

\* cell = 0 (game.cc:264)
restore(B, pos) == [B EXCEPT !.board[pos] = 0]

\* Mutant: the window is negated but its ends are not swapped.
ChildWindow_unswapped(alpha, beta) == [alpha |-> -alpha, beta |-> -beta]

\* The window handed to the recursive call: -beta, -alpha (game.cc:263)
ChildWindow(alpha, beta) == [alpha |-> -beta, beta |-> -alpha]

\* alpha = (alpha >= score) ? alpha : score (game.cc:271)
RaiseAlpha(alpha, score) == IF alpha >= score THEN alpha ELSE score

\* alpha >= beta (game.cc:272)
Cutoff(alpha, beta) == alpha >= beta

\* History: note the cells that were non-Empty at the call and are Empty now.
Observe(s) ==
  [s EXCEPT !.erased = @ \cup {c \in Inner : s.orig[c] # EMPTY /\ s.B.board[c] = EMPTY}]

\* return best_score (game.cc:274 with cut, game.cc:279 without)
ReturnBest(n, ap_pos) ==
  [ret |-> n.f.best_score,
   s |-> [n.s EXCEPT !.nodes = @ \cup {[ap |-> ap_pos, entry |-> n.f.entry,
                                        seen |-> n.f.seen, cut |-> n.f.cut,
                                        ret |-> n.f.best_score]},
                     !.idx = @ \cup {ap_pos}
                               \cup hasLost_reads([board |-> n.f.entry], ap_pos)],
   move |-> n.f.best_move]

\* Mutant: a loss is worth LOSS_VALUE at whatever depth it is found.
Lost_unbiased(s, ap_pos, pp_pos, depth) ==
  [ret |-> LOSS_VALUE,
   s |-> [s EXCEPT !.losses = @ + 1,
                   !.idx = @ \cup hasLost_reads(s.B, ap_pos),
                   !.stuck = @ \cup {[board |-> s.B.board, ap |-> ap_pos, pp |-> pp_pos,
                                     depth |-> depth, ret |-> LOSS_VALUE]}],
   move |-> 0]

\* return LOSS_VALUE + depth (game.cc:236-239)
Lost(s, ap_pos, pp_pos, depth) ==
  [ret |-> LOSS_VALUE + depth,
   s |-> [s EXCEPT !.losses = @ + 1,
                   !.idx = @ \cup hasLost_reads(s.B, ap_pos),
                   !.stuck = @ \cup {[board |-> s.B.board, ap |-> ap_pos, pp |-> pp_pos,
                                     depth |-> depth, ret |-> LOSS_VALUE + depth]}],
   move |-> 0]

\* depth_count++; score = scorer->getScore(board, player); return score
\* (game.cc:241-247)
Score(s, ap_pos, pp_pos, depth) ==
  LET player == s.B.board[ap_pos]
      score == getScore(s.B, player)
  IN  [ret |-> score,
       s |-> [s EXCEPT !.depth_count = @ + 1,
                       !.idx = @ \cup {ap_pos} \cup hasLost_reads(s.B, ap_pos),
                       !.leaves = @ \cup {[board |-> s.B.board, ap |-> ap_pos,
                                           pp |-> pp_pos, depth |-> depth,
                                           ret |-> score]}],
       move |-> 0]

RECURSIVE negamax(_, _, _, _, _, _, _)
RECURSIVE expand(_, _, _, _, _, _)

\* Negamax::negamax(ap_pos, pp_pos, depth, alpha, beta, best_move); out is
\* best_move != NULL, and the result's move is the value left in *best_move.
\* The node handed to expand is the search state s and the locals f as the
\* for loop is entered (game.cc:249-253).
negamax(s, ap_pos, pp_pos, depth, alpha, beta, out) ==
  CASE hasLost(s.B, ap_pos) -> Lost(s, ap_pos, pp_pos, depth)
    [] ~hasLost(s.B, ap_pos) /\ AtHorizon(depth, s.max_depth) ->
         Score(s, ap_pos, pp_pos, depth)
    [] OTHER ->
         expand([f |-> [i |-> 1, pos |-> ap_pos, alpha |-> alpha,
                        best_score |-> -INF, best_move |-> 0, out |-> out,
                        seen |-> <<>>, entry |-> s.B.board, cut |-> FALSE],
                 s |-> s],
                ap_pos, pp_pos, depth, beta, s.B.board[ap_pos])

\* Mutant: a candidate that ties with best_score replaces the best move.
tried_tieReplaces(n, pos, r, beta) ==
  [f |-> [n.f EXCEPT !.best_score = IF -1 * r.ret > @ THEN -1 * r.ret ELSE @,
                     !.best_move = IF -1 * r.ret >= n.f.best_score /\ n.f.out
                                   THEN pos ELSE @,
                     !.alpha = RaiseAlpha(@, -1 * r.ret),
                     !.cut = Cutoff(RaiseAlpha(n.f.alpha, -1 * r.ret), beta),
                     !.pos = pos,
                     !.seen = Append(@, pos)],
   s |-> Observe([r.s EXCEPT !.B = restore(@, pos), !.idx = @ \cup {pos}])]

\* game.cc:262-272 at the Empty cell pos: r is what the recursive call made
\* on the occupied cell returned; the cell is restored and the locals are
\* updated, f.cut recording alpha >= beta.
tried(n, pos, r, beta) ==
  [f |-> [n.f EXCEPT !.best_score = IF -1 * r.ret > @ THEN -1 * r.ret ELSE @,
                     !.best_move = IF -1 * r.ret > n.f.best_score /\ n.f.out
                                   THEN pos ELSE @,
                     !.alpha = RaiseAlpha(@, -1 * r.ret),
                     !.cut = Cutoff(RaiseAlpha(n.f.alpha, -1 * r.ret), beta),
                     !.pos = pos,
                     !.seen = Append(@, pos)],
   s |-> Observe([r.s EXCEPT !.B = restore(@, pos), !.idx = @ \cup {pos}])]

\* The two nested loops of negamax (game.cc:252-277) from the node n, in
\* direction n.f.i (1-based) with the token walked to n.f.pos, and the two
\* returns of best_score (game.cc:274, 279).  A non-Empty cell ends the ray
\* and the next direction starts from ap_pos (game.cc:253, 257-260).
expand(n, ap_pos, pp_pos, depth, beta, player) ==
  CASE n.f.cut -> ReturnBest(n, ap_pos)
    [] n.f.i > 8 -> ReturnBest(n, ap_pos)
    [] Blocked(n.s.B, n.f.pos + MOVES[n.f.i]) ->
         expand([n EXCEPT !.f.i = @ + 1, !.f.pos = ap_pos,
                          !.s.idx = @ \cup {n.f.pos + MOVES[n.f.i]}],
                ap_pos, pp_pos, depth, beta, player)
    [] OTHER ->
         expand(tried(n, n.f.pos + MOVES[n.f.i],
                      negamax(Observe([n.s EXCEPT
                                 !.B = occupy(@, n.f.pos + MOVES[n.f.i], player)]),
                              pp_pos, n.f.pos + MOVES[n.f.i], depth + 1,
                              ChildWindow(n.f.alpha, beta).alpha,
                              ChildWindow(n.f.alpha, beta).beta, FALSE),
                      beta),
                ap_pos, pp_pos, depth, beta, player)

\* Negamax::getMove(board, player, max_depth): the move returned, the state
\* the call leaves, and the value of the root call (which getMove drops).
getMove(B, player, max_depth) ==
  LET ap_pos == IF player = P1 THEN B.p1 ELSE B.p2
      pp_pos == IF player = P1 THEN B.p2 ELSE B.p1
      s0 == [B |-> B, max_depth |-> max_depth, depth_count |-> 0,
             orig |-> B.board, erased |-> {}, nodes |-> {}, losses |-> 0,
             idx |-> {}, leaves |-> {}, stuck |-> {}]
      r == negamax(s0, ap_pos, pp_pos, 1, -INF, INF, TRUE)
  IN  [move |-> r.move, s |-> r.s, value |-> r.ret]

(***************************************************************************)
(* State.                                                                  *)
(***************************************************************************)
VARIABLES
  board,        \* Board::board, the 49 cells
  p1, p2,       \* Board::p1, Board::p2
  player,       \* play_match: the player to move
  count,        \* play_match: count, the getMove calls made so far; in BoardSpec
                \* and SearchSpec the moves the caller has played
  best_move,    \* play_match: best_move
  max_depth,    \* Negamax::max_depth of the object that served the last call
  depth_count,  \* Negamax::depth_count of that object
  pc,           \* the position of the driver
  ret           \* the last interface call and what it returned (history)

vars == <<board, p1, p2, player, count, best_move, max_depth, depth_count, pc, ret>>

\* The Board object as a value.
Bd == [board |-> board, p1 |-> p1, p2 |-> p2]

SetBoard(B) == board' = B.board /\ p1' = B.p1 /\ p2' = B.p2

NoCall ==
  [op |-> "none", player |-> 0, arg |-> 0, move |-> 0, value |-> 0, lost |-> FALSE,
   pre |-> <<>>, erased |-> {}, nodes |-> {}, losses |-> 0, idx |-> {},
   leaves |-> {}, stuck |-> {}]

(***************************************************************************)
(* The boards a search or a match starts from: a Board on which a caller   *)
(* has filled every inner cell outside the free region through play().     *)
(***************************************************************************)
InnerOrder ==
  <<8, 9, 10, 15, 16, 17, 22, 23, 24, 11, 18, 25, 29, 30, 31, 32,
    12, 19, 26, 33, 36, 37, 38, 39, 40>>

Region == {InnerOrder[k] : k \in 1..FreeCells}

\* The Board after play() calls, by the two players in turn, on the cells
\* InnerOrder[FreeCells+1 .. 25]; the stored positions are set again by the
\* placements that follow.
FilledBoard ==
  [board |-> [c \in Cells |->
                IF \E k \in (FreeCells + 1)..25 : InnerOrder[k] = c
                THEN (IF c % 2 = 0 THEN P1 ELSE P2)
                ELSE NewBoard.board[c]],
   p1 |-> 0, p2 |-> 0]

\* The Empty cells a token at pos can move to (the rules of the game, used by
\* the callers that choose a move themselves).
Dest(B, pos) ==
  {c \in Inner : \E k \in 1..8 : \E n \in 1..4 :
      /\ c = pos + n * MOVES[k]
      /\ \A j \in 1..n : B.board[pos + j * MOVES[k]] = EMPTY}

(***************************************************************************)
(* BoardSpec: a new Board, two placements, then up to MaxPlies legal moves.*)
(***************************************************************************)
BoardInit ==
  /\ board = NewBoard.board /\ p1 = NewBoard.p1 /\ p2 = NewBoard.p2
  /\ player = P1 /\ count = 0 /\ best_move = 0
  /\ max_depth = 0 /\ depth_count = 0
  /\ pc = "new" /\ ret = NoCall

\* A placement: play(x, y, player) on any Empty cell.
BPlace ==
  /\ pc \in {"new", "placed1"}
  /\ \E x \in 0..4, y \in 0..4 :
       /\ isLegal(Bd, x, y)
       /\ SetBoard(play(Bd, x, y, player))
  /\ pc' = IF pc = "new" THEN "placed1" ELSE "moves"
  /\ player' = OPPONENT(player)
  /\ UNCHANGED <<count, best_move, max_depth, depth_count, ret>>

\* A legal move: play(x, y, player) on a cell of an unobstructed ray.
BMove ==
  /\ pc = "moves"
  /\ count < MaxPlies
  /\ \E c \in Dest(Bd, PosOf(Bd, player)) :
       SetBoard(play(Bd, POS_TO_X(c), POS_TO_Y(c), player))
  /\ count' = count + 1
  /\ player' = OPPONENT(player)
  /\ UNCHANGED <<best_move, max_depth, depth_count, pc, ret>>

BoardNext == BPlace \/ BMove

BoardSpec == BoardInit /\ [][BoardNext]_vars

(***************************************************************************)
(* SearchSpec: main's two placements in the free region, then a caller     *)
(* that plays up to SearchPlies legal moves and calls hasLost, getScore    *)
(* and Negamax::getMove on the boards it reaches.                          *)
(***************************************************************************)
SearchInit ==
  /\ \E i \in 0..4, j \in 0..4 :
       /\ ~(i = 0 /\ j = 0)
       /\ XY_TO_POS(i, j) \in Region
       /\ LET B == play(play(FilledBoard, 0, 0, P1), i, j, P2)
          IN  board = B.board /\ p1 = B.p1 /\ p2 = B.p2
  /\ player = P1 /\ count = 0 /\ best_move = 0
  /\ max_depth = 0 /\ depth_count = 0
  /\ pc = "api" /\ ret = NoCall

\* board.play(x, y, player) with a legal move of the player to move.
ApiPlay ==
  /\ pc = "api"
  /\ count < SearchPlies
  /\ \E c \in Dest(Bd, PosOf(Bd, player)) :
       SetBoard(play(Bd, POS_TO_X(c), POS_TO_Y(c), player))
  /\ player' = OPPONENT(player)
  /\ count' = count + 1
  /\ UNCHANGED <<best_move, max_depth, depth_count, pc, ret>>

\* board.hasLost(pos)
ApiHasLost ==
  /\ pc = "api"
  /\ \E pos \in Inner \cup {0} :
       ret' = [NoCall EXCEPT !.op = "hasLost", !.arg = pos, !.lost = hasLost(Bd, pos),
                             !.pre = Bd, !.idx = hasLost_reads(Bd, pos)]
  /\ pc' = "returned"
  /\ UNCHANGED <<board, p1, p2, player, count, best_move, max_depth, depth_count>>

\* scorer.getScore(&board, pl)
ApiGetScore ==
  /\ pc = "api"
  /\ \E pl \in {P1, P2} :
       ret' = [NoCall EXCEPT !.op = "getScore", !.player = pl,
                             !.value = getScore(Bd, pl), !.pre = Bd,
                             !.idx = dijkstra_run(Bd, P1).idx \cup dijkstra_run(Bd, P2).idx]
  /\ pc' = "returned"
  /\ UNCHANGED <<board, p1, p2, player, count, best_move, max_depth, depth_count>>

\* The history record of a getMove call on board B.
CallRecord(B, pl, d, r) ==
  [op |-> "getMove", player |-> pl, arg |-> d, move |-> r.move, value |-> r.value,
   lost |-> FALSE, pre |-> B, erased |-> r.s.erased, nodes |-> r.s.nodes,
   losses |-> r.s.losses, idx |-> r.s.idx, leaves |-> r.s.leaves,
   stuck |-> r.s.stuck]

\* negamax.getMove(&board, player, d)
ApiGetMove ==
  /\ pc = "api"
  /\ \E d \in 1..MaxDepth :
       LET r == getMove(Bd, player, d)
       IN  /\ SetBoard(r.s.B)
           /\ max_depth' = r.s.max_depth
           /\ depth_count' = r.s.depth_count
           /\ ret' = CallRecord(Bd, player, d, r)
  /\ pc' = "returned"
  /\ UNCHANGED <<player, count, best_move>>

\* mirror.getMove(&board, pl, d) on a Mirror object
ApiMirrorGetMove ==
  /\ pc = "api"
  /\ \E pl \in {P1, P2}, d \in 1..MaxDepth :
       LET r == Mirror_getMove(Bd, pl, d)
       IN  /\ SetBoard(r.B)
           /\ ret' = [NoCall EXCEPT !.op = "mirror", !.player = pl, !.arg = d,
                                    !.move = r.move, !.pre = Bd]
  /\ pc' = "returned"
  /\ UNCHANGED <<player, count, best_move, max_depth, depth_count>>

\* The caller has looked at the result and goes on; the Negamax object it
\* made for the call is gone.
ApiResume ==
  /\ pc = "returned"
  /\ pc' = "api"
  /\ ret' = NoCall
  /\ max_depth' = 0 /\ depth_count' = 0
  /\ UNCHANGED <<board, p1, p2, player, count, best_move>>

SearchNext ==
  ApiPlay \/ ApiHasLost \/ ApiGetScore \/ ApiGetMove \/ ApiMirrorGetMove \/ ApiResume

SearchSpec == SearchInit /\ [][SearchNext]_vars

(***************************************************************************)
(* EndgameSpec: getMove on late boards.  A caller has filled, through      *)
(* play(), every inner cell but EndFree cells of the free region; P1's     *)
(* token stands on (0,0), where main puts it, P2's on another cell of the  *)
(* region.  The caller calls getScore for either player and                *)
(* Negamax::getMove, with max_depth up to EndDepth, for the player to move.*)
(***************************************************************************)
EndInit ==
  /\ \E E \in SUBSET Region, a \in {XY_TO_POS(0, 0)}, b \in Region :
       /\ Cardinality(E) = EndFree
       /\ a \notin E /\ b \notin E /\ a # b
       /\ board = [c \in Cells |->
                     IF c \in E THEN EMPTY
                     ELSE IF c = a THEN P1
                     ELSE IF c = b THEN P2
                     ELSE IF c \in Inner THEN (IF c % 2 = 0 THEN P1 ELSE P2)
                     ELSE NewBoard.board[c]]
       /\ p1 = a /\ p2 = b
  /\ player \in {P1, P2}
  /\ count = 0 /\ best_move = 0
  /\ max_depth = 0 /\ depth_count = 0
  /\ pc = "api" /\ ret = NoCall

\* negamax.getMove(&board, player, d)
EndGetMove ==
  /\ pc = "api"
  /\ \E d \in 1..EndDepth :
       LET r == getMove(Bd, player, d)
       IN  /\ SetBoard(r.s.B)
           /\ max_depth' = r.s.max_depth
           /\ depth_count' = r.s.depth_count
           /\ ret' = CallRecord(Bd, player, d, r)
  /\ pc' = "returned"
  /\ UNCHANGED <<player, count, best_move>>

EndNext == EndGetMove \/ ApiGetScore \/ ApiResume

EndgameSpec == EndInit /\ [][EndNext]_vars

(***************************************************************************)
(* MatchSpec: main's loop body (game.cc:328-331) followed by play_match    *)
(* (game.cc:337-367).                                                      *)
(***************************************************************************)
MatchInit ==
  /\ board = FilledBoard.board /\ p1 = 0 /\ p2 = 0
  /\ player = P1 /\ count = 0 /\ best_move = 0
  /\ max_depth = 0 /\ depth_count = 0
  /\ pc = "main" /\ ret = NoCall

\* board.play(0, 0, P1); board.play(i, j, P2); play_match(P1, board)
MainSetup ==
  /\ pc = "main"
  /\ \E i \in 0..4, j \in 0..4 :
       /\ ~(i = 0 /\ j = 0)
       /\ XY_TO_POS(i, j) \in Region
       /\ SetBoard(play(play(Bd, 0, 0, P1), i, j, P2))
  /\ player' = P1 /\ count' = 0 /\ pc' = "loop"
  /\ UNCHANGED <<best_move, max_depth, depth_count, ret>>

\* The top of the loop: the hasLost test on the player to move (game.cc:344-349).
MatchCheck ==
  /\ pc = "loop"
  /\ pc' = IF hasLost(Bd, PosOf(Bd, player)) THEN "lost" ELSE "move"
  /\ UNCHANGED <<board, p1, p2, player, count, best_move, max_depth, depth_count, ret>>

\* best_move = (mirror | negamax).getMove(&board, player, 25); count++
\* (game.cc:351-357; mirror and negamax are both Negamax objects).
MatchGetMove ==
  /\ pc = "move"
  /\ LET r == getMove(Bd, player, MATCH_DEPTH)
     IN  /\ SetBoard(r.s.B)
         /\ best_move' = r.move
         /\ max_depth' = r.s.max_depth
         /\ depth_count' = r.s.depth_count
         /\ ret' = CallRecord(Bd, player, MATCH_DEPTH, r)
  /\ count' = count + 1
  /\ pc' = "play"
  /\ UNCHANGED player

\* board.play(POS_TO_X(best_move), POS_TO_Y(best_move), player);
\* player = OPPONENT(player) (game.cc:358-365).
MatchPlay ==
  /\ pc = "play"
  /\ SetBoard(play(Bd, POS_TO_X(best_move), POS_TO_Y(best_move), player))
  /\ player' = OPPONENT(player)
  /\ pc' = "loop"
  /\ ret' = NoCall
  /\ UNCHANGED <<count, best_move, max_depth, depth_count>>

MatchNext == MainSetup \/ MatchCheck \/ MatchGetMove \/ MatchPlay

\* The step from "move" to "play" is MatchGetMove and nothing else; getMove
\* returns on every board, so the step is enabled whenever pc = "move".
GetMoveStep == pc = "move" /\ pc' = "play"

\* The program runs: a step that can be taken is taken.
MatchSpec ==
  /\ MatchInit /\ [][MatchNext]_vars
  /\ WF_vars(MainSetup) /\ WF_vars(MatchCheck) /\ WF_vars(MatchPlay)
  /\ WF_pc(GetMoveStep)

(***************************************************************************)
(* Reference definitions used by the properties.                           *)
(***************************************************************************)
Max(S) == CHOOSE x \in S : \A y \in S : y <= x

RECURSIVE Minimax(_, _, _, _, _)
\* The depth-bounded negamax value with every candidate of every node
\* expanded (no window, no cutoff).
Minimax(B, ap_pos, pp_pos, depth, md) ==
  IF hasLost(B, ap_pos) THEN LOSS_VALUE + depth
  ELSE IF depth = md THEN getScore(B, B.board[ap_pos])
  ELSE Max({-Minimax(occupy(B, c, B.board[ap_pos]), pp_pos, c, depth + 1, md) :
              c \in Dest(B, ap_pos)})

\* The acting and the passive position of the last getMove call.
CallAp == PosOf(ret.pre, ret.player)
CallPp == PosOf(ret.pre, OPPONENT(ret.player))

Returned(op) == ret.op = op

(***************************************************************************)
(* C1  Board restoration: when Negamax::getMove returns, the 49 cells and  *)
(* the stored positions p1 and p2 equal their values at the call, whatever *)
(* mix of cutoff, loss and horizon returns the search went through.        *)
(***************************************************************************)
\* C1: after getMove has returned, cells and stored positions are those of the call.
C1_BoardRestored ==
  Returned("getMove") => (board = ret.pre.board /\ p1 = ret.pre.p1 /\ p2 = ret.pre.p2)

\* A returned search that had a beta cutoff, a loss return and a horizon return.
C1_Witness ==
  /\ Returned("getMove")
  /\ \E n \in ret.nodes : n.cut
  /\ ret.losses > 0
  /\ depth_count > 0
  /\ board = ret.pre.board

(***************************************************************************)
(* C2  Alpha-beta soundness: the value of the root call                    *)
(* negamax(ap, pp, 1, -INF, INF) equals the value of the same              *)
(* depth-bounded recursion without cutoff.                                 *)
(***************************************************************************)
\* C2: the pruned root value equals the unpruned value of the same depth.
C2_PruningKeepsValue ==
  Returned("getMove") => ret.value = Minimax(ret.pre, CallAp, CallPp, 1, ret.arg)

\* A returned search in which at least one node was cut off.
C2_Witness ==
  /\ Returned("getMove")
  /\ \E n \in ret.nodes : n.cut /\ Len(n.seen) < Cardinality(Dest([ret.pre EXCEPT !.board = n.entry], n.ap))
  /\ ret.value = Minimax(ret.pre, CallAp, CallPp, 1, ret.arg)

(***************************************************************************)
(* C3  For a board with both players placed, an acting player that has not *)
(* lost and maxDepth >= 1, getMove returns a legal destination (an Empty   *)
(* cell on an unobstructed ray from the acting position, never the initial *)
(* value 0) whose negated child value is the maximum over all legal        *)
(* destinations.                                                           *)
(***************************************************************************)
\* The negated value of the child reached by moving the acting player to c.
ChildValue(c) ==
  -Minimax(occupy(ret.pre, c, ret.player), CallPp, c, 2, ret.arg)

MoveIsBest ==
  /\ ret.move # 0
  /\ ret.move \in Dest(ret.pre, CallAp)
  /\ ChildValue(ret.move) = Max({ChildValue(c) : c \in Dest(ret.pre, CallAp)})
  /\ ChildValue(ret.move) = ret.value

\* C3: for maxDepth >= 1 and an acting player that has not lost, the returned
\* move is legal, not 0, and attains the maximum of the negated child values.
C3_LegalBestMove ==
  (Returned("getMove") /\ ret.arg >= 1 /\ ~hasLost(ret.pre, CallAp)) => MoveIsBest

\* C3 for maxDepth >= 2 only, where the root call expands moves.
C3_LegalBestMoveFromDepth2 ==
  (Returned("getMove") /\ ret.arg >= 2 /\ ~hasLost(ret.pre, CallAp)) => MoveIsBest

(***************************************************************************)
(* C4  Match termination: from P1 at (0,0) and P2 on any other cell, the   *)
(* match loop always reaches the "Lost" exit, and the player it reports is *)
(* the player to move, whose token has no Empty neighbour.                 *)
(***************************************************************************)
\* All eight neighbours of the token of pl are non-Empty.
Surrounded(pl) ==
  LET pos == IF pl = P1 THEN p1 ELSE p2
  IN  pos # 0 /\ \A k \in 1..8 : board[pos + MOVES[k]] # EMPTY

\* C4: the match reaches "lost", and there the player to move is surrounded.
C4_MatchEnds ==
  /\ <>(pc = "lost")
  /\ [](pc = "lost" => Surrounded(player))

\* A match that ended after moves were played.
C4_Witness == pc = "lost" /\ count >= 3 /\ Surrounded(player)

(***************************************************************************)
(* C5  Ply bound: every ply the driver applies turns exactly one Empty     *)
(* inner cell into a non-Empty one and changes no other cell, so the       *)
(* number of plies played plus the number of Empty cells stays what it was *)
(* after the two placements, and at most 23 plies are played.              *)
(***************************************************************************)
NumEmpty == Cardinality({c \in Inner : board[c] = EMPTY})

EmptyAtStart == FreeCells - 2

\* C5: a ply turns exactly one Empty inner cell non-Empty; plies + Empty cells
\* is constant, and at most 23 plies are played.
C5_PlyConsumesOneCell ==
  /\ [][pc = "play" =>
          \E c \in Inner :
             /\ c = best_move
             /\ board[c] = EMPTY /\ board'[c] # EMPTY
             /\ \A o \in Cells \ {c} : board'[o] = board[o]
             /\ NumEmpty' = NumEmpty - 1]_vars
  /\ [](pc \in {"loop", "move", "lost"} =>
          (count + NumEmpty = EmptyAtStart /\ count <= 23))

\* A match in which several plies have been applied.
C5_Witness == pc = "loop" /\ count >= 4 /\ count + NumEmpty = EmptyAtStart

(***************************************************************************)
(* C6  Scorer zero-sum: getScore(board, P1) = -getScore(board, P2) on      *)
(* every board with both players placed, and getScore leaves the board as  *)
(* it found it.                                                            *)
(***************************************************************************)
\* C6: getScore(board, P1) = -getScore(board, P2), the board unchanged.
C6_ScoreZeroSum ==
  Returned("getScore") =>
    /\ ret.value = -getScore(ret.pre, OPPONENT(ret.player))
    /\ getScore(ret.pre, P1) = -getScore(ret.pre, P2)
    /\ Bd = ret.pre

\* A score that is not zero, on a board where moves have been played.
C6_Witness ==
  /\ Returned("getScore") /\ ret.player = P1
  /\ ret.value > 0 /\ count >= 1
  /\ getScore(ret.pre, P2) = -ret.value

(***************************************************************************)
(* C7  Loss detection: for an inner cell pos, hasLost(pos) is true exactly *)
(* when the eight cells at offsets +-1, +-7, +-6, +-8 from pos are all     *)
(* non-Empty; hasLost(0) is false; the board is not modified.              *)
(***************************************************************************)
NeighbourOffsets == {1, -1, 7, -7, 6, -6, 8, -8}

\* C7: hasLost(pos) iff all eight neighbours are non-Empty; hasLost(0) is
\* false; the board unchanged.
C7_LossDetection ==
  Returned("hasLost") =>
    /\ ret.arg \in Inner =>
         (ret.lost <=> \A o \in NeighbourOffsets : ret.pre.board[ret.arg + o] # EMPTY)
    /\ ret.arg = 0 => ~ret.lost
    /\ Bd = ret.pre

\* hasLost answered TRUE for a cell of the free region.
C7_Witness ==
  /\ Returned("hasLost") /\ ret.lost /\ ret.arg \in Region
  /\ \A o \in NeighbourOffsets : board[ret.arg + o] # EMPTY

(***************************************************************************)
(* C8  Move occlusion.  For every node of a search that ran the expansion  *)
(* loop from position P: every candidate it enumerated is an Empty cell    *)
(* reached by stepping from P in one of the eight directions over Empty    *)
(* cells only (none lies at or beyond the first non-Empty cell of its      *)
(* direction), no candidate is enumerated twice, and a node that was not   *)
(* cut off enumerated all of these cells.  A node cut off by alpha >= beta *)
(* stopped enumerating at the cutoff.                                      *)
(***************************************************************************)
Range(q) == {q[k] : k \in 1..Len(q)}

\* The cells the rays from n.ap reach on the board the node was entered with.
RayCells(n) == Dest([board |-> n.entry], n.ap)

\* C8 as stated: every node enumerates exactly the cells of the eight rays up
\* to the first non-Empty cell.
C8_ExactlyRayCells ==
  Returned("getMove") => \A n \in ret.nodes : Range(n.seen) = RayCells(n)

\* C8 as it holds: candidates are ray cells, each enumerated once, and all
\* of them at a node that is not cut off.
C8_Occlusion ==
  Returned("getMove") =>
    \A n \in ret.nodes :
      /\ Range(n.seen) \subseteq RayCells(n)
      /\ Len(n.seen) = Cardinality(Range(n.seen))
      /\ ~n.cut => Range(n.seen) = RayCells(n)

\* A node, not cut off, with a token next to it and an Empty cell right
\* behind that token which was not enumerated.
C8_Witness ==
  /\ Returned("getMove")
  /\ \E n \in ret.nodes : \E k \in 1..8 :
       /\ ~n.cut /\ n.seen # <<>>
       /\ n.entry[n.ap + MOVES[k]] \in {P1, P2}
       /\ n.ap + 2 * MOVES[k] \in Inner
       /\ n.entry[n.ap + 2 * MOVES[k]] = EMPTY
       /\ n.ap + 2 * MOVES[k] \notin Range(n.seen)

(***************************************************************************)
(* C9  Board ownership.  As stated: at most one cell holds a given         *)
(* player's mark, and it is the cell at the player's stored position.      *)
(* As it holds: the cell at a placed player's stored position holds that   *)
(* player's mark, a player that has not been placed has no marked cell,    *)
(* and the cells a token has left keep the mark, so that the number of     *)
(* cells holding a player's mark is the number of play calls made for that *)
(* player (one until the player's first move).                             *)
(***************************************************************************)
Marks(pl) == {c \in Cells : board[c] = pl}

StoredPos(pl) == IF pl = P1 THEN p1 ELSE p2

\* The play calls made for pl so far in BoardSpec: the placement, and every
\* second move, P1 moving first.
PlaysOf(pl) ==
  (IF StoredPos(pl) = 0 THEN 0 ELSE 1) + (IF pl = P1 THEN (count + 1) \div 2 ELSE count \div 2)

\* C9 as stated: at most one cell holds a player's mark, the cell at the
\* player's stored position.
C9_SingleMark ==
  \A pl \in {P1, P2} :
    /\ Cardinality(Marks(pl)) <= 1
    /\ \A c \in Marks(pl) : c = StoredPos(pl)

\* C9 as it holds: the stored position holds the mark, and the marked cells
\* are as many as the play calls made for the player.
C9_MarkAtStoredPosition ==
  \A pl \in {P1, P2} :
    /\ StoredPos(pl) # 0 => board[StoredPos(pl)] = pl
    /\ StoredPos(pl) = 0 => Marks(pl) = {}
    /\ Cardinality(Marks(pl)) = PlaysOf(pl)

\* P1 has moved once: two cells hold its mark, one of them its position.
C9_Witness ==
  /\ pc = "moves" /\ count >= 1
  /\ Cardinality(Marks(P1)) = 2
  /\ board[p1] = P1 /\ board[p2] = P2

(***************************************************************************)
(* C10  Trail permanence: in a match, a cell that is non-Empty is never    *)
(* Empty again, neither after a later play nor at any moment of a later    *)
(* getMove search (the search writes Empty only to cells it changed from   *)
(* Empty itself).                                                          *)
(***************************************************************************)
\* C10: no step makes a non-Empty cell Empty, and no write of a search does.
C10_TrailPermanent ==
  /\ [][\A c \in Cells : board[c] # EMPTY => board'[c] # EMPTY]_vars
  /\ [](Returned("getMove") => ret.erased = {})

\* The third search of a match has returned: it expanded nodes, erased
\* nothing, and the cells of the two earlier plies are still non-Empty.
C10_Witness ==
  /\ pc = "play" /\ count >= 3
  /\ Returned("getMove") /\ Cardinality(ret.nodes) >= 2 /\ ret.erased = {}
  /\ Cardinality({c \in Region : board[c] # EMPTY}) = count + 1

(***************************************************************************)
(* C11: the border ring.                                                   *)
(***************************************************************************)
\* The 24 cells of the ring.
Ring == Cells \ Inner

\* C11: in every state the 24 ring cells hold BORDER, and every index that a
\* hasLost call, the flood fills of a getScore call, or the hasLost tests and
\* ray walks of a getMove call used on the cell array or on the distance
\* array lies in 0..48.
C11_RingHoldsAndBoundsEverything ==
  /\ \A c \in Ring : board[c] = BORDER
  /\ ret.idx \subseteq 0..48
  /\ ret.op = "getMove" =>
       \A l \in ret.leaves :
         \A c \in Ring : l.board[c] = BORDER

\* A getMove call on tokens at inner cells, after moves of the caller, whose
\* ray walks have read ring cells and which scored nodes.
C11_Witness ==
  /\ ret.op = "getMove" /\ ret.arg >= 3
  /\ CallAp \in Inner /\ CallPp \in Inner
  /\ ret.idx \cap Ring # {}
  /\ count > 0
  /\ depth_count > 0

\* A getScore call whose flood fills have read ring cells.
C11_FloodFillCase ==
  /\ ret.op = "getScore"
  /\ ret.idx \cap Ring # {}
  /\ ret.idx \cap Inner # {}

(***************************************************************************)
(* C12: Mirror::getMove.                                                   *)
(***************************************************************************)
\* The Board B with the stored position of player pl set to pos.
WithPos(B, pl, pos) == IF pl = P1 THEN [B EXCEPT !.p1 = pos] ELSE [B EXCEPT !.p2 = pos]

\* C12: a Mirror::getMove call with the opponent at inner coordinates (x, y)
\* returns the index of (4-x, 4-y), which is 48 minus the opponent's index;
\* any other depth and any other own position give the same result, the
\* same holds with the opponent on any of the 25 inner cells, the Board is
\* as before the call, and reflecting the result gives back the opponent's
\* cell.
C12_MirrorReflects ==
  ret.op = "mirror" =>
    /\ \A x \in 0..4, y \in 0..4 :
         CallPp = x * 7 + y + 8 => ret.move = (4 - x) * 7 + (4 - y) + 8
    /\ ret.move = 48 - CallPp
    /\ \A d \in 1..(MATCH_DEPTH + 1), q \in Inner :
         Mirror_getMove(WithPos(ret.pre, ret.player, q), ret.player, d).move = ret.move
    /\ \A x \in 0..4, y \in 0..4 :
         LET r == Mirror_getMove(WithPos(ret.pre, OPPONENT(ret.player), x * 7 + y + 8),
                                 ret.player, ret.arg)
         IN  /\ r.move = (4 - x) * 7 + (4 - y) + 8
             /\ r.move = 48 - (x * 7 + y + 8)
             /\ r.B = WithPos(ret.pre, OPPONENT(ret.player), x * 7 + y + 8)
    /\ Bd = ret.pre
    /\ Mirror_getMove(WithPos(ret.pre, OPPONENT(ret.player), ret.move),
                      ret.player, ret.arg).move = CallPp

\* A Mirror::getMove call after the opponent has moved off its first cell,
\* whose result is neither a legal destination nor the centre.
C12_Witness ==
  /\ ret.op = "mirror"
  /\ CallPp \in Inner
  /\ count > 0
  /\ ret.move # 24
  /\ ret.move \notin Dest(Bd, CallAp)
(***************************************************************************)
(* C13: the value returned at the horizon.                                 *)
(***************************************************************************)
\* The flood fill's value on the cells b when started from the cell pos.
ReachFrom(b, pos) == dijkstra([board |-> b, p1 |-> pos, p2 |-> pos], P1)

\* C13: every node that returned the score returned the flood fill from the
\* node's active position ap_pos minus the flood fill from the node's
\* passive position pp_pos, on the cells as they are at the node.
C13_HorizonFromNodePositions ==
  ret.op = "getMove" =>
    \A l \in ret.leaves : l.ret = ReachFrom(l.board, l.ap) - ReachFrom(l.board, l.pp)

\* What the scorer computes instead: both flood fills start from the
\* positions stored in the Board, which the search does not update; the two
\* agree when the horizon is the root, where no speculative move was made.
C13_HorizonFromStoredPositions ==
  ret.op = "getMove" =>
    \A l \in ret.leaves :
      /\ l.ret = ReachFrom(l.board, PosOf(ret.pre, l.board[l.ap]))
                 - ReachFrom(l.board, PosOf(ret.pre, OPPONENT(l.board[l.ap])))
      /\ l.depth = ret.arg
      /\ l.depth = 1 => l.ret = ReachFrom(l.board, l.ap) - ReachFrom(l.board, l.pp)

\* A search that scored a node two plies below the root, where both tokens
\* have been moved speculatively.
C13_Witness ==
  /\ ret.op = "getMove" /\ ret.arg = 3
  /\ \E l \in ret.leaves : l.ap # CallAp /\ l.pp # CallPp
(***************************************************************************)
(* C14: the loss test comes first.                                         *)
(***************************************************************************)
\* On the cells b no neighbour of the cell pos is Empty.
NoEmptyNeighbour(b, pos) == \A k \in NeighbourOffsets : b[pos + k] # EMPTY

\* C14: in every search, a node whose active token has no Empty neighbour
\* returned LOSS_VALUE + depth at its depth in 1..max_depth, and no such
\* node was scored or expanded, at the horizon either; the nodes that
\* returned LOSS_VALUE + depth are those.  And on a Board where hasLost holds
\* of a player's token, getMove for that player with any max_depth (1, the
\* horizon, included) has the value LOSS_VALUE + 1, calls no scorer, expands
\* nothing and leaves the Board as it was.
C14_LossTakesPrecedence ==
  /\ ret.op = "getMove" =>
       /\ \A l \in ret.stuck :
            /\ l.ret = LOSS_VALUE + l.depth
            /\ l.depth \in 1..ret.arg
            /\ NoEmptyNeighbour(l.board, l.ap)
       /\ \A l \in ret.leaves : ~NoEmptyNeighbour(l.board, l.ap)
       /\ \A n \in ret.nodes : ~NoEmptyNeighbour(n.entry, n.ap)
  /\ ret.op = "hasLost" /\ ret.lost /\ ret.pre.board[ret.arg] \in {P1, P2} =>
       \A d \in 1..MaxDepth :
         LET pl == ret.pre.board[ret.arg]
             B == WithPos(ret.pre, pl, ret.arg)
             r == getMove(B, pl, d)
         IN  /\ r.value = LOSS_VALUE + 1
             /\ r.s.stuck = {[board |-> B.board, ap |-> ret.arg,
                              pp |-> PosOf(B, OPPONENT(pl)),
                              depth |-> 1, ret |-> LOSS_VALUE + 1]}
             /\ r.s.leaves = {} /\ r.s.nodes = {}
             /\ r.s.depth_count = 0
             /\ r.s.B = B
             /\ r.s.idx \subseteq {ret.arg + k : k \in NeighbourOffsets}

\* A search that met a node without Empty neighbour exactly at the horizon,
\* two or more plies below the root, and another one above the horizon.
C14_Witness ==
  /\ ret.op = "getMove" /\ ret.arg >= 3
  /\ \E l \in ret.stuck : l.depth = ret.arg
  /\ \E l \in ret.stuck : l.depth < ret.arg
  /\ ret.leaves # {}

\* A hasLost call that returned true for a cell holding a player's mark.
C14_RootCase == ret.op = "hasLost" /\ ret.lost /\ ret.pre.board[ret.arg] \in {P1, P2}

(***************************************************************************)
(* C15: among forced losses the latest one is chosen.                      *)
(***************************************************************************)
Min(S) == CHOOSE x \in S : \A y \in S : x <= y

\* The cells b after the token on the cell from has been moved to the cell c
\* (the trail stays marked).
Moved(b, from, c) == [b EXCEPT ![c] = b[from]]

RECURSIVE LossDepth(_, _, _, _, _)
RECURSIVE WinDepth(_, _, _, _, _)
\* The game below a node at the given depth, by the rules alone: LossDepth is
\* the depth at which the mover is left without a move when it delays that
\* as long as it can and the other side brings it about as early as it can;
\* 0 when the mover is not forced to that within md.
LossDepth(b, ap, pp, depth, md) ==
  IF NoEmptyNeighbour(b, ap) THEN depth
  ELSE IF depth = md THEN 0
  ELSE LET ds == {WinDepth(Moved(b, ap, c), pp, c, depth + 1, md) :
                    c \in Dest([board |-> b], ap)}
       IN  IF 0 \in ds THEN 0 ELSE Max(ds)

\* WinDepth is the depth at which the mover leaves the other side without a
\* move, as early as it can; 0 when it cannot force that within md.
WinDepth(b, ap, pp, depth, md) ==
  IF NoEmptyNeighbour(b, ap) THEN 0
  ELSE IF depth = md THEN 0
  ELSE LET ds == {LossDepth(Moved(b, ap, c), pp, c, depth + 1, md) :
                    c \in Dest([board |-> b], ap)} \ {0}
       IN  IF ds = {} THEN 0 ELSE Min(ds)

\* The depth at which the root player's loss is forced after the root move c.
RootLossDepth(c) == WinDepth(Moved(ret.pre.board, CallAp, c), CallPp, c, 2, ret.arg)

\* Every root move of the last getMove call loses by force within max_depth.
AllRootMovesLose ==
  /\ ret.op = "getMove"
  /\ ~NoEmptyNeighbour(ret.pre.board, CallAp)
  /\ ret.arg >= 2
  /\ \A c \in Dest(ret.pre, CallAp) : RootLossDepth(c) # 0

\* C15: when every root move loses by force within max_depth, the root value
\* is LOSS_VALUE + d for the largest forced loss depth d over the root moves,
\* and the returned move is a legal move with that loss depth, so no move
\* with a smaller loss depth is returned when a larger one exists.
C15_LatestLossChosen ==
  AllRootMovesLose =>
    LET d == Max({RootLossDepth(c) : c \in Dest(ret.pre, CallAp)})
    IN  /\ ret.value = LOSS_VALUE + d
        /\ ret.move \in Dest(ret.pre, CallAp)
        /\ RootLossDepth(ret.move) = d
        /\ d = LossDepth(ret.pre.board, CallAp, CallPp, 1, ret.arg)

\* A search in which all root moves lose by force and the root move tried
\* first loses earlier than the move returned.
C15_Witness ==
  /\ AllRootMovesLose
  /\ \E n \in ret.nodes :
       /\ n.ap = CallAp /\ n.entry = ret.pre.board
       /\ RootLossDepth(n.seen[1]) < RootLossDepth(ret.move)

(***************************************************************************)
(* C16: what the flood fill discovers and returns.                         *)
(***************************************************************************)
RECURSIVE Grow(_, _)
\* The cells of S and the Empty cells of b joined to S by a chain of
\* neighbouring Empty cells.
Grow(b, S) ==
  LET T == S \cup {c \in Inner : b[c] = EMPTY /\ \E k \in NeighbourOffsets : c - k \in S}
  IN  IF T = S THEN S ELSE Grow(b, T)

RECURSIVE SumOver(_, _)
\* The sum of f over the elements of the sequence q.
SumOver(f, q) == IF q = <<>> THEN 0 ELSE f[Head(q)] + SumOver(f, Tail(q))

\* The flood fill of player pl on the Board B did what C16 says.
FloodFillExact(B, pl) ==
  LET d == dijkstra_run(B, pl)
      pos == PosOf(B, pl)
  IN  /\ Range(d.pushed) = Grow(B.board, {pos})
      /\ Len(d.pushed) = Cardinality(Range(d.pushed))
      /\ d.popped = d.pushed
      /\ d.q = <<>>
      /\ \A c \in Cells : d.steps[c] # -1 <=> c \in Range(d.pushed)
      /\ d.steps[pos] = 0
      /\ d.total_cells = Len(d.popped)
      /\ d.total_steps = SumOver(d.steps, d.popped)
      /\ dijkstra(B, pl) = Len(d.popped) * 16 - SumOver(d.steps, d.popped)

\* C16: on the Board of every getScore call, the flood fill of either player
\* enqueues the origin and exactly the Empty cells joined to it by chains of
\* Empty cells, each once, dequeues the same cells, ends with the queue
\* empty, and returns 16 times the number of dequeued cells minus the sum of
\* their distances; getScore returns the difference of the two.
C16_FloodFillReach ==
  ret.op = "getScore" =>
    /\ FloodFillExact(ret.pre, P1)
    /\ FloodFillExact(ret.pre, P2)
    /\ ret.value = dijkstra(ret.pre, ret.player) - dijkstra(ret.pre, OPPONENT(ret.player))

\* A getScore call on a board where some Empty inner cell is not joined to
\* the player's token and one joined cell is at distance 3.
C16_Witness ==
  /\ ret.op = "getScore"
  /\ LET d == dijkstra_run(ret.pre, ret.player)
     IN  /\ \E c \in Inner : ret.pre.board[c] = EMPTY /\ d.steps[c] = -1
         /\ \E c \in Inner : d.steps[c] >= 2

(***************************************************************************)
(* C17: the distances the flood fill records.                              *)
(***************************************************************************)
RECURSIVE MinMoves(_, _, _, _)
\* The least number of ray moves from the cells of the set S, themselves k
\* moves from the origin, to each cell; f holds the numbers found so far
\* and -1 for the cells not reached.
MinMoves(B, f, S, k) ==
  LET T == {c \in Inner : f[c] = -1 /\ \E u \in S : c \in Dest(B, u)}
  IN  IF T = {} THEN f
      ELSE MinMoves(B, [c \in Cells |-> IF c \in T THEN k + 1 ELSE f[c]], T, k + 1)

\* The least number of ray moves from the token of pl to each cell of B.
RayDistance(B, pl) ==
  MinMoves(B, [c \in Cells |-> IF c = PosOf(B, pl) THEN 0 ELSE -1], {PosOf(B, pl)}, 0)

\* C17: on the Board of every getScore call, the distance the flood fill of
\* either player records for a cell is the least number of ray moves from
\* the player's token to the cell.
C17_ShortestDistances ==
  ret.op = "getScore" =>
    \A pl \in {P1, P2} : dijkstra_run(ret.pre, pl).steps = RayDistance(ret.pre, pl)

\* What holds instead: the flood fill reaches the same cells, no recorded
\* distance is below the least number of ray moves, and the cells one move
\* from the token have distance 1.
C17_DistancesNotBelow ==
  ret.op = "getScore" =>
    \A pl \in {P1, P2} :
      LET steps == dijkstra_run(ret.pre, pl).steps
          least == RayDistance(ret.pre, pl)
      IN  \A c \in Cells :
            /\ steps[c] = -1 <=> least[c] = -1
            /\ steps[c] >= least[c]
            /\ least[c] <= 1 => steps[c] = least[c]

(***************************************************************************)
(* C18: hasLost and the move generation agree.                             *)
(***************************************************************************)
\* C18: hasLost(pos) of an inner cell returns true exactly when no cell can
\* be moved to from pos; in every search each node that ran the expansion
\* loop tried at least one candidate, and no node returned -INF or INF, the
\* root included.
C18_LostIffNoMove ==
  /\ (ret.op = "hasLost" /\ ret.arg \in Inner) =>
       (ret.lost <=> Dest(ret.pre, ret.arg) = {})
  /\ ret.op = "getMove" =>
       /\ \A n \in ret.nodes :
            /\ Len(n.seen) >= 1
            /\ Dest([board |-> n.entry], n.ap) # {}
            /\ n.ret \notin {-INF, INF}
       /\ \A l \in ret.stuck : Dest([board |-> l.board], l.ap) = {} /\ l.ret \notin {-INF, INF}
       /\ \A l \in ret.leaves : l.ret \notin {-INF, INF}
       /\ ret.value \notin {-INF, INF}

\* A search with a node that had a single candidate, a node that was cut
\* off, and a node that had no move.
C18_Witness ==
  /\ ret.op = "getMove"
  /\ \E n \in ret.nodes : Len(n.seen) = 1 /\ ~n.cut
  /\ \E n \in ret.nodes : n.cut
  /\ ret.stuck # {}

(***************************************************************************)
(* C19: scores lie strictly between the loss values.                       *)
(***************************************************************************)
\* v is above every loss value LOSS_VALUE + d and below every negated one.
BetweenLossValues(v) ==
  \A d \in 1..MATCH_DEPTH : v > LOSS_VALUE + d /\ v < -(LOSS_VALUE + d)

\* The flood fill value of either player on B is between one cell's worth
\* and 25 cells' worth.
ReachInRange(B) ==
  \A pl \in {P1, P2} :
    /\ dijkstra(B, pl) >= SCORE_PER_CELL
    /\ dijkstra(B, pl) <= Cardinality(Inner) * SCORE_PER_CELL

\* main's Board with the same two placements: no other cell is filled.
OpenBoard(B) == play(play(NewBoard, 0, 0, P1), POS_TO_X(B.p2), POS_TO_Y(B.p2), P2)

\* C19: every value returned by getScore, to a caller or to the search at
\* the horizon, lies strictly between LOSS_VALUE + d and -(LOSS_VALUE + d)
\* for every d in 1..25, the two flood fill values being between 16 and
\* 25 * 16, also on the open Board of main; in a search every loss return
\* is below every horizon return and its negation, and no node returns
\* -INF or INF.
C19_ScoresBetweenLossValues ==
  /\ ret.op = "getScore" =>
       /\ BetweenLossValues(ret.value)
       /\ ReachInRange(ret.pre)
       /\ count = 0 =>
            /\ ReachInRange(OpenBoard(ret.pre))
            /\ BetweenLossValues(getScore(OpenBoard(ret.pre), ret.player))
  /\ ret.op = "getMove" =>
       /\ \A l \in ret.leaves :
            /\ BetweenLossValues(l.ret)
            /\ \A k \in ret.stuck : k.ret < l.ret /\ k.ret < -l.ret
       /\ \A k \in ret.stuck : k.ret > -INF /\ k.ret < -SCORE_PER_CELL * Cardinality(Inner)
       /\ \A n \in ret.nodes : n.ret > -INF /\ n.ret < INF
       /\ ret.value > -INF /\ ret.value < INF

\* A getScore call on main's first board with a non-zero value, the open
\* Board giving a flood fill value above 300.
C19_Witness ==
  /\ ret.op = "getScore" /\ count = 0
  /\ ret.value # 0
  /\ dijkstra(OpenBoard(ret.pre), ret.player) > 300

\* A search in which both a loss return and a horizon return occurred.
C19_SearchCase ==
  /\ ret.op = "getMove"
  /\ ret.stuck # {} /\ ret.leaves # {}

(***************************************************************************)
(* C20: ties are broken by the enumeration order.                          *)
(***************************************************************************)
RECURSIVE RayFrom(_, _, _)
\* The Empty cells after the cell p in the direction move, nearest first.
RayFrom(b, p, move) ==
  IF b[p + move] # EMPTY THEN <<>> ELSE <<p + move>> \o RayFrom(b, p + move, move)

RECURSIVE EnumerationFrom(_, _, _)
\* The candidates of a token on pos in the order of the two loops: the
\* directions in the order of MOVES from the k-th on, each ray nearest first.
EnumerationFrom(b, pos, k) ==
  IF k > 8 THEN <<>> ELSE RayFrom(b, pos, MOVES[k]) \o EnumerationFrom(b, pos, k + 1)

\* The root of the last getMove call ran the expansion loop.
RootExpanded ==
  /\ ret.op = "getMove" /\ ret.arg >= 2
  /\ ~hasLost(ret.pre, CallAp)

\* C20: when the root of a getMove call runs the expansion loop (max_depth
\* at least 2, player not lost), the move returned is the first candidate,
\* in the order +1, -1, +7, -7, +6, -6, +8, -8 and nearest first on a ray,
\* whose value without pruning equals the root value; the root tried the
\* candidates in that order.
C20_FirstBestCandidate ==
  RootExpanded =>
    LET seq == EnumerationFrom(ret.pre.board, CallAp, 1)
    IN  /\ MOVES = <<1, -1, 7, -7, 6, -6, 8, -8>>
        /\ \E n \in ret.nodes : n.ap = CallAp /\ n.entry = ret.pre.board /\ n.seen = seq
        /\ \E j \in 1..Len(seq) :
             /\ seq[j] = ret.move
             /\ ChildValue(seq[j]) = ret.value
             /\ \A i \in 1..(j - 1) : ChildValue(seq[i]) # ret.value

\* A search whose root has a later candidate with the same value as the
\* returned one, tried when alpha had been raised to that value, and
\* candidates with smaller values before the returned one.
C20_Witness ==
  /\ RootExpanded /\ ret.arg >= 3
  /\ LET seq == EnumerationFrom(ret.pre.board, CallAp, 1)
     IN  \E i, j, k \in 1..Len(seq) :
           /\ i < j /\ j < k
           /\ ChildValue(seq[i]) < ret.value
           /\ seq[j] = ret.move
           /\ ChildValue(seq[k]) = ret.value

=============================================================================
